---- MODULE Spec2Model ----
(***************************************************************************)
(* DrizzlePostgreSQLAdapter (packages/adapter-drizzle/src/drivers/         *)
(* postgresql.ts): the seven Adapter operations over a session table and a *)
(* user table that an optional per-call schema argument relocates.         *)
(*                                                                         *)
(* A table object is a record with a schema pointer.  The adapter holds    *)
(* ONE session-table object and ONE user-table object for its whole life;  *)
(* the variables sessionTable and userTable are those two objects.  The    *)
(* database holds, for every schema, a session table and a user table,     *)
(* each a set of rows; a select returns its rows in an order of the        *)
(* store's choosing.                                                       *)
(***************************************************************************)
EXTENDS Integers, Sequences, FiniteSets, TLC

\* Bounds of the model.
MaxTime == 1

\* The universe the inputs are drawn from.
Schemas == {"public", "tenant"}
Absent == ""
SchemaArgs == {Absent} \cup Schemas
SessionIds == {"s1", "s2"}
UserIds == {"u1", "u2"}
Times == 0..MaxTime
Null == [null |-> TRUE]

ReservedSessionKeys == {"id", "userId", "expiresAt"}
ReservedUserKeys == {"id"}
SessionColumns == {"id", "userId", "expiresAt", "country"}

\* The DatabaseSession values handed to setSession: attributes holds the
\* extra column, and in one input also an entry under the reserved key id.
WellFormedSessions ==
  [id : SessionIds, userId : UserIds, expiresAt : Times, attributes : {[country |-> "de"]}]

ReservedKeySessions ==
  {[id |-> "s1", userId |-> "u1", expiresAt |-> 0,
    attributes |-> [country |-> "de", id |-> "s2"]]}

SessionInputs == WellFormedSessions \cup ReservedKeySessions

\* The user table of each schema; it is owned by an external collaborator.
InitialUsers ==
  [s \in Schemas |->
     IF s = "public"
       THEN {[id |-> "u1", name |-> "a"]}
       ELSE {[id |-> "u1", name |-> "b"], [id |-> "u2", name |-> "c"]}]

VARIABLES
  sessionTable,   \* this.sessionTable: the adapter's one session-table object
  userTable,      \* this.userTable: the adapter's one user-table object
  defaultSchema,  \* this.defaultSchema
  dbSessions,     \* the store: schema -> set of session rows
  dbUsers,        \* the store: schema -> set of user rows
  pending,        \* calls past their synchronous prefix, awaiting the store
  last,           \* history: the call that completed last, what it returned, how
                  \* many rows its query selected and the schemas it ran against
  rival           \* history: the setSession that completed while another caller's
                  \* setSession of the same id was in flight, until a call that
                  \* is not that other one completes

vars == <<sessionTable, userTable, defaultSchema, dbSessions, dbUsers, pending, last,
          rival>>

----------------------------------------------------------------------------
\* Pure helpers

Range(f) == {f[i] : i \in DOMAIN f}

\* `schema ? ... : ...`: undefined and the empty string are falsy.
Truthy(schema) == schema # Absent

\* Object spread {...a, ...b}: b's entries override a's.
Spread(a, b) ==
  [k \in (DOMAIN a) \cup (DOMAIN b) |-> IF k \in DOMAIN b THEN b[k] ELSE a[k]]

Restrict(f, keys) == [k \in (DOMAIN f) \cap keys |-> f[k]]

Map(seq, F(_)) == [i \in DOMAIN seq |-> F(seq[i])]

RECURSIVE SetToSeq(_)
SetToSeq(S) ==
  IF S = {} THEN <<>>
  ELSE LET x == CHOOSE y \in S : TRUE IN <<x>> \o SetToSeq(S \ {x})

\* dynamicSchema(table, schema): assigns the schema pointer of the table
\* object it is given and returns that same object.
dynamicSchema(table, schema) == [table EXCEPT !.schema = schema]

\* State of this.sessionTable after getSessionTable(schema); the returned
\* reference is this.sessionTable itself in both branches.
getSessionTable(schema) ==
  IF Truthy(schema) THEN dynamicSchema(sessionTable, schema) ELSE sessionTable

\* State of this.userTable after getUserTable(schema).
getUserTable(schema) ==
  IF Truthy(schema) THEN dynamicSchema(userTable, schema) ELSE userTable

transformIntoDatabaseSession(raw) ==
  [userId |-> raw.userId, id |-> raw.id, expiresAt |-> raw.expiresAt,
   attributes |-> Restrict(raw, (DOMAIN raw) \ ReservedSessionKeys)]

transformIntoDatabaseUser(raw) ==
  [id |-> raw.id, attributes |-> Restrict(raw, (DOMAIN raw) \ ReservedUserKeys)]

----------------------------------------------------------------------------
\* The query layer as the adapter uses it

eq(a, b) == a = b

lte(a, b) == a <= b

deleteSessionWhereWrongColumn(row, sessionId) == row.userId = sessionId

deleteSessionWhere(row, sessionId) == eq(row.id, sessionId)

deleteUserSessionsWhereWrongColumn(row, userId) == row.id = userId

deleteUserSessionsWhere(row, userId) == eq(row.userId, userId)

getSessionAndUserOn(srow, urow) == eq(srow.userId, urow.id)

getSessionAndUserWhereMissing(srow, sessionId) == TRUE

getSessionAndUserWhere(srow, sessionId) == eq(srow.id, sessionId)

getUserSessionsWhereMissing(row, userId) == TRUE

getUserSessionsWhere(row, userId) == eq(row.userId, userId)

updateSessionExpirationWhere(row, sessionId) == eq(row.id, sessionId)

\* An update that moves the expiration on by the value instead of setting it.
updateSessionExpirationSetAdds(row, expiresAt) ==
  [row EXCEPT !.expiresAt = @ + expiresAt]

updateSessionExpirationSet(row, expiresAt) == [row EXCEPT !.expiresAt = expiresAt]

deleteExpiredSessionsWhereStrict(row, date) == row.expiresAt < date

deleteExpiredSessionsWhere(row, date) == lte(row.expiresAt, date)

\* The object literal handed to insert().values(): the three named fields,
\* then the spread of session.attributes; the table keeps its own columns.
setSessionValues(session) ==
  Restrict(Spread([id |-> session.id, userId |-> session.userId,
                   expiresAt |-> session.expiresAt], session.attributes),
           SessionColumns)

\* select({user, session}).from(sessions).innerJoin(users, on).where(...):
\* one result row per matching (session row, user row) pair.
InnerJoin(srows, urows, sessionId) ==
  SetToSeq({p \in [session : srows, user : urows] :
              /\ getSessionAndUserOn(p.session, p.user)
              /\ getSessionAndUserWhere(p.session, sessionId)})

\* A result that is absent on no row only, and the first row otherwise.
getSessionAndUserResultFirstRow(result) ==
  IF Len(result) = 0 THEN <<Null, Null>>
  ELSE <<transformIntoDatabaseSession(result[1].session),
         transformIntoDatabaseUser(result[1].user)>>

\* What getSessionAndUser returns for the rows of the join.
getSessionAndUserResult(result) ==
  IF Len(result) # 1 THEN <<Null, Null>>
  ELSE <<transformIntoDatabaseSession(result[1].session),
         transformIntoDatabaseUser(result[1].user)>>

\* The store's constraints on the session table: id is its primary key and
\* userId references the id of the user table of the same schema.
InsertConstraintsHold(rows, urows, row) ==
  /\ \A r \in rows : r.id # row.id
  /\ \E u \in urows : u.id = row.userId

\* Number of rows of a table a predicate selects (history only).
Count(rows, P(_)) == Cardinality({r \in rows : P(r)})

----------------------------------------------------------------------------
\* A call and its execution against the store

CallsOf(op, Args) == [op : {op}, schema : SchemaArgs, arg : Args]

DeleteSessionCalls == CallsOf("deleteSession", [sessionId : SessionIds])
DeleteUserSessionsCalls == CallsOf("deleteUserSessions", [userId : UserIds])
GetSessionAndUserCalls == CallsOf("getSessionAndUser", [sessionId : SessionIds])
GetUserSessionsCalls == CallsOf("getUserSessions", [userId : UserIds])
SetSessionCalls == CallsOf("setSession", [session : SessionInputs])
UpdateSessionExpirationCalls ==
  CallsOf("updateSessionExpiration", [sessionId : SessionIds, expiresAt : Times])
\* deleteExpiredSessions takes no argument but the schema; date is the value
\* new Date() yields during the call, an input from the clock.
DeleteExpiredSessionsCalls == CallsOf("deleteExpiredSessions", [date : Times])

\* The synchronous prefix of a call, up to its await: the table objects the
\* call obtains.  Only getSessionAndUser asks for the user table.
SelectSessionTable(call) == getSessionTable(call.schema)

SelectUserTable(call) ==
  IF call.op = "getSessionAndUser" THEN getUserTable(call.schema) ELSE userTable

Outcome(rows, result, ok, matched) ==
  [rows |-> rows, result |-> result, ok |-> ok, matched |-> matched]

execDeleteSession(rows, sessionId) ==
  Outcome({r \in rows : ~deleteSessionWhere(r, sessionId)}, <<>>, TRUE,
          Count(rows, LAMBDA r : deleteSessionWhere(r, sessionId)))

execDeleteUserSessions(rows, userId) ==
  Outcome({r \in rows : ~deleteUserSessionsWhere(r, userId)}, <<>>, TRUE,
          Count(rows, LAMBDA r : deleteUserSessionsWhere(r, userId)))

execGetSessionAndUser(rows, urows, sessionId) ==
  LET result == InnerJoin(rows, urows, sessionId)
  IN Outcome(rows, getSessionAndUserResult(result), TRUE, Len(result))

execGetUserSessions(rows, userId) ==
  LET result == SetToSeq({r \in rows : getUserSessionsWhere(r, userId)})
  IN Outcome(rows, Map(result, transformIntoDatabaseSession), TRUE, Len(result))

\* An insert that skips the row in conflict and reports no failure.
execSetSessionIgnoreConflict(rows, urows, session) ==
  LET row == setSessionValues(session)
  IN IF InsertConstraintsHold(rows, urows, row)
       THEN Outcome(rows \cup {row}, <<>>, TRUE, 1)
       ELSE Outcome(rows, <<>>, TRUE, 0)

\* An insert that overwrites the row in conflict instead of failing.
execSetSessionUpsert(rows, urows, session) ==
  LET row == setSessionValues(session)
  IN Outcome({r \in rows : r.id # row.id} \cup {row}, <<>>, TRUE, 1)

execSetSession(rows, urows, session) ==
  LET row == setSessionValues(session)
  IN IF InsertConstraintsHold(rows, urows, row)
       THEN Outcome(rows \cup {row}, <<>>, TRUE, 1)
       ELSE Outcome(rows, <<>>, FALSE, 0)

execUpdateSessionExpiration(rows, sessionId, expiresAt) ==
  Outcome({IF updateSessionExpirationWhere(r, sessionId)
             THEN updateSessionExpirationSet(r, expiresAt)
             ELSE r : r \in rows},
          <<>>, TRUE,
          Count(rows, LAMBDA r : updateSessionExpirationWhere(r, sessionId)))

execDeleteExpiredSessions(rows, date) ==
  Outcome({r \in rows : ~deleteExpiredSessionsWhere(r, date)}, <<>>, TRUE,
          Count(rows, LAMBDA r : deleteExpiredSessionsWhere(r, date)))

\* The awaited query of a call, run with the table objects in the state
\* st (session table) and ut (user table) they have when the query runs.
Execute(call, st, ut) ==
  LET rows == dbSessions[st.schema]
      urows == dbUsers[ut.schema]
  IN CASE call.op = "deleteSession" -> execDeleteSession(rows, call.arg.sessionId)
       [] call.op = "deleteUserSessions" -> execDeleteUserSessions(rows, call.arg.userId)
       [] call.op = "getSessionAndUser" ->
            execGetSessionAndUser(rows, urows, call.arg.sessionId)
       [] call.op = "getUserSessions" -> execGetUserSessions(rows, call.arg.userId)
       [] call.op = "setSession" ->
            execSetSession(rows, dbUsers[st.schema], call.arg.session)
       [] call.op = "updateSessionExpiration" ->
            execUpdateSessionExpiration(rows, call.arg.sessionId, call.arg.expiresAt)
       [] call.op = "deleteExpiredSessions" -> execDeleteExpiredSessions(rows, call.arg.date)

\* The schemas the query of a call ran against (history only).
Target(call, st, ut) ==
  [session |-> st.schema,
   user |-> IF call.op = "getSessionAndUser" THEN ut.schema ELSE Absent]

Completed(call, out, st, ut) ==
  [op |-> call.op, schema |-> call.schema, result |-> out.result, ok |-> out.ok, matched |-> out.matched, target |-> Target(call, st, ut)]

----------------------------------------------------------------------------
\* The state machine

Callers == {"c1", "c2"}

NoCall == [op |-> "none", schema |-> Absent, arg |-> [none |-> TRUE]]

NoRival == [none |-> TRUE]

\* The adapter as constructed, over a store with no session yet.  The two
\* table objects handed to the constructor are defined in the default schema;
\* the constructor stores defaultSchema and no method reads it.
Init ==
  /\ defaultSchema = "public"
  /\ sessionTable = [name |-> "session", schema |-> defaultSchema]
  /\ userTable = [name |-> "user", schema |-> defaultSchema]
  /\ dbSessions = [s \in Schemas |-> {}]
  /\ dbUsers = InitialUsers
  /\ pending = [c \in Callers |-> NoCall]
  /\ last = [op |-> "none", schema |-> Absent, result |-> <<>>, ok |-> TRUE, matched |-> 0,
             target |-> [session |-> Absent, user |-> Absent]]
  /\ rival = NoRival

\* A call that is awaited before the next one is issued: its synchronous
\* prefix and its query run with nothing in between.
Awaited(call) ==
  LET st == SelectSessionTable(call)
      ut == SelectUserTable(call)
      out == Execute(call, st, ut)
  IN /\ sessionTable' = st
     /\ userTable' = ut
     /\ dbSessions' = [dbSessions EXCEPT ![st.schema] = out.rows]
     /\ last' = Completed(call, out, st, ut)

DeleteSession ==
  \E call \in DeleteSessionCalls :
    /\ Awaited(call)
    /\ UNCHANGED <<defaultSchema, dbUsers, pending, rival>>

\* A deleteUserSessions that deletes the user along with the sessions.
DeleteUserSessionsAndUser ==
  \E call \in DeleteUserSessionsCalls :
    /\ Awaited(call)
    /\ dbUsers' = [dbUsers EXCEPT ![SelectSessionTable(call).schema] =
                     {u \in @ : u.id # call.arg.userId}]
    /\ UNCHANGED <<defaultSchema, pending, rival>>

DeleteUserSessions ==
  \E call \in DeleteUserSessionsCalls :
    /\ Awaited(call)
    /\ UNCHANGED <<defaultSchema, dbUsers, pending, rival>>

GetSessionAndUser ==
  \E call \in GetSessionAndUserCalls :
    /\ Awaited(call)
    /\ UNCHANGED <<defaultSchema, dbUsers, pending, rival>>

GetUserSessions ==
  \E call \in GetUserSessionsCalls :
    /\ Awaited(call)
    /\ UNCHANGED <<defaultSchema, dbUsers, pending, rival>>

SetSession ==
  \E call \in SetSessionCalls :
    /\ Awaited(call)
    /\ UNCHANGED <<defaultSchema, dbUsers, pending, rival>>

UpdateSessionExpiration ==
  \E call \in UpdateSessionExpirationCalls :
    /\ Awaited(call)
    /\ UNCHANGED <<defaultSchema, dbUsers, pending, rival>>

DeleteExpiredSessions ==
  \E call \in DeleteExpiredSessionsCalls :
    /\ Awaited(call)
    /\ UNCHANGED <<defaultSchema, dbUsers, pending, rival>>

Next ==
  \/ DeleteSession
  \/ DeleteUserSessions
  \/ GetSessionAndUser
  \/ GetUserSessions
  \/ SetSession
  \/ UpdateSessionExpiration
  \/ DeleteExpiredSessions

Spec == Init /\ [][Next]_vars

----------------------------------------------------------------------------
\* Calls in flight together.  An async method runs synchronously up to its
\* await (the table objects are obtained there) and its query runs later,
\* reading the table objects as they are then; another call's synchronous
\* prefix may run in between.

Call(op, schema, arg) == [op |-> op, schema |-> schema, arg |-> arg]

ConcurrentSessions ==
  {[id |-> "s1", userId |-> "u1", expiresAt |-> t, attributes |-> [country |-> "de"]] :
     t \in {0, MaxTime}}

ConcurrentCalls ==
  UNION {{Call("deleteSession", schema, [sessionId |-> "s1"]),
          Call("deleteUserSessions", schema, [userId |-> "u1"]),
          Call("getSessionAndUser", schema, [sessionId |-> "s1"]),
          Call("getUserSessions", schema, [userId |-> "u1"]),
          Call("updateSessionExpiration", schema, [sessionId |-> "s1", expiresAt |-> MaxTime]),
          Call("deleteExpiredSessions", schema, [date |-> 0])}
         \cup {Call("setSession", schema, [session |-> x]) : x \in ConcurrentSessions} :
         schema \in SchemaArgs}

\* The caller invokes the method: it runs to its await.
Issue(c) ==
  \E call \in ConcurrentCalls :
    /\ pending[c] = NoCall
    /\ sessionTable' = SelectSessionTable(call)
    /\ userTable' = SelectUserTable(call)
    /\ pending' = [pending EXCEPT ![c] = call]
    /\ UNCHANGED <<defaultSchema, dbSessions, dbUsers, last, rival>>

\* Caller d's call in flight is a setSession of the id of caller c's.
SameIdInFlight(c, d) ==
  /\ pending[c].op = "setSession"
  /\ pending[d].op = "setSession"
  /\ pending[d].arg.session.id = pending[c].arg.session.id

\* The history of two setSession calls of one id in flight together, as
\* caller c's call completes with the outcome out: c's is the first of the
\* two, or the second, or breaks the pair up.
Rivalry(c, out) ==
  IF \E d \in Callers \ {c} : SameIdInFlight(c, d)
    THEN [session |-> pending[c].arg.session, ok |-> out.ok,
          target |-> sessionTable.schema,
          other |-> CHOOSE d \in Callers \ {c} : SameIdInFlight(c, d),
          done |-> FALSE]
    ELSE IF rival # NoRival /\ ~rival.done /\ rival.other = c
           THEN [rival EXCEPT !.done = TRUE]
           ELSE NoRival

\* The awaited query of the caller's call runs and the call completes.
Settle(c) ==
  /\ pending[c] # NoCall
  /\ LET out == Execute(pending[c], sessionTable, userTable)
     IN /\ dbSessions' = [dbSessions EXCEPT ![sessionTable.schema] = out.rows]
        /\ last' = Completed(pending[c], out, sessionTable, userTable)
        /\ rival' = Rivalry(c, out)
  /\ pending' = [pending EXCEPT ![c] = NoCall]
  /\ UNCHANGED <<sessionTable, userTable, defaultSchema, dbUsers>>

ConcNext == \E c \in Callers : Issue(c) \/ Settle(c)

ConcSpec == Init /\ [][ConcNext]_vars

----------------------------------------------------------------------------
\* What the claims are stated with

\* The DatabaseSession a session row stands for, written out column by column.
AsSession(r) ==
  [id |-> r.id, userId |-> r.userId, expiresAt |-> r.expiresAt,
   attributes |-> [country |-> r.country]]

\* What getSessionAndUser(sessionId, schema) returns when it is the next call.
LookupSessionAndUser(sessionId, schema) ==
  LET call == Call("getSessionAndUser", schema, [sessionId |-> sessionId])
  IN Execute(call, SelectSessionTable(call), SelectUserTable(call)).result

\* What getUserSessions(userId, schema) returns when it is the next call.
LookupUserSessions(userId, schema) ==
  LET call == Call("getUserSessions", schema, [userId |-> userId])
  IN Execute(call, SelectSessionTable(call), SelectUserTable(call)).result

\* The session tables of all schemas but one are the same before and after.
OtherSchemasUnchanged(t) == \A s \in Schemas \ {t} : dbSessions'[s] = dbSessions[s]

\* This step is the call, awaited: the history is compared first, it tells
\* most calls apart at once.
Step(call) == last'.op = call.op /\ last'.schema = call.schema /\ Awaited(call)

----------------------------------------------------------------------------
\* C1: when calls with different schema arguments are in flight together,
\* the query of every call that passed a schema runs against that schema
\* (for getSessionAndUser: both of its tables do).
C1_EachCallRunsAgainstItsOwnSchema ==
  (last.op # "none" /\ Truthy(last.schema)) =>
    /\ last.target.session = last.schema
    /\ last.op = "getSessionAndUser" => last.target.user = last.schema

\* C2: after any sequence of calls the adapter's base session-table and
\* user-table objects carry the schema they were constructed with.
C2_BaseTablesKeepTheirSchema ==
  /\ sessionTable.schema = defaultSchema
  /\ userTable.schema = defaultSchema

\* C3: a call made without a schema argument runs against the configured
\* default schema, whatever calls came before it.
C3_NoSchemaArgumentMeansDefaultSchema ==
  (last.op # "none" /\ ~Truthy(last.schema)) =>
    /\ last.target.session = defaultSchema
    /\ last.op = "getSessionAndUser" => last.target.user = defaultSchema

\* C4: after setSession(S) succeeded, getSessionAndUser(S.id) with the same
\* schema argument returns a session equal to S in id, userId, expiresAt and
\* attributes, and the user whose id is S.userId (stated for the sessions S
\* whose attributes hold no reserved key).
C4_SetSessionThenLookupReturnsIt ==
  [][\A call \in SetSessionCalls :
       (call.arg.session \in WellFormedSessions /\ Step(call) /\ last'.ok) =>
         LET S == call.arg.session
             got == LookupSessionAndUser(S.id, call.schema)'
         IN /\ got[1] = S
            /\ got[2] # Null
            /\ got[2].id = S.userId]_vars

\* C5: getSessionAndUser raises no error, returns both components present or
\* both absent, and returns (absent, absent) when the session table it
\* queries holds no row with the session id.
C5_LookupOfMissingSessionIsAbsent ==
  [][\A call \in GetSessionAndUserCalls :
       Step(call) =>
         /\ last'.ok
         /\ (last'.result[1] = Null) <=> (last'.result[2] = Null)
         /\ (\A r \in dbSessions[last'.target.session] : r.id # call.arg.sessionId)
              => last'.result = <<Null, Null>>]_vars

\* A lookup came back absent from a table that holds sessions, each with its
\* user in the joined user table: no stored row had the id asked for.
C5_Witness ==
  /\ last.op = "getSessionAndUser"
  /\ last.result = <<Null, Null>>
  /\ last.matched = 0
  /\ dbSessions[last.target.session] # {}
  /\ \A r \in dbSessions[last.target.session] :
       \E u \in dbUsers[last.target.user] : u.id = r.userId

\* C6: deleteSession(id) removes the rows with that id, at most one, from the
\* session table it runs against and no other row of any table, raises no
\* error, and a getSessionAndUser(id) that follows with the same schema
\* argument returns (absent, absent), whether or not the id was stored.
C6_DeleteSessionThenLookupIsAbsent ==
  [][\A call \in DeleteSessionCalls :
       Step(call) =>
         LET t == last'.target.session
             id == call.arg.sessionId
         IN /\ last'.ok
            /\ LookupSessionAndUser(id, call.schema)' = <<Null, Null>>
            /\ dbSessions'[t] = {r \in dbSessions[t] : r.id # id}
            /\ Cardinality(dbSessions[t]) - Cardinality(dbSessions'[t]) <= 1
            /\ OtherSchemasUnchanged(t)]_vars

C6_Witness ==
  /\ last.op = "deleteSession"
  /\ last.matched = 1
  /\ dbSessions[last.target.session] # {}

\* C7: updateSessionExpiration(id, t) on a stored session makes a following
\* getSessionAndUser(id) with the same schema argument return that session
\* with expiresAt = t and id, userId and attributes as before, and changes no
\* other session; on an id that is not stored it raises no error and leaves
\* the store as it is.
C7_UpdateThenLookupReturnsNewExpiration ==
  [][\A call \in UpdateSessionExpirationCalls :
       Step(call) =>
         LET t == last'.target.session
             id == call.arg.sessionId
             hit == {r \in dbSessions[t] : r.id = id}
         IN /\ last'.ok
            /\ OtherSchemasUnchanged(t)
            /\ dbSessions'[t] =
                 (dbSessions[t] \ hit)
                   \cup {[r EXCEPT !.expiresAt = call.arg.expiresAt] : r \in hit}
            /\ \A r \in hit :
                 LookupSessionAndUser(id, call.schema)'[1] =
                   AsSession([r EXCEPT !.expiresAt = call.arg.expiresAt])]_vars

\* C8: deleteExpiredSessions() removes from the session table it runs against
\* exactly the rows whose expiresAt is at or before the time of the call and
\* leaves every other row, and every other table, as it was.
C8_DeleteExpiredRemovesExactlyTheExpired ==
  [][\A call \in DeleteExpiredSessionsCalls :
       Step(call) =>
         LET t == last'.target.session
         IN /\ last'.ok
            /\ dbSessions'[t] = {r \in dbSessions[t] : r.expiresAt > call.arg.date}
            /\ OtherSchemasUnchanged(t)]_vars

C8_Witness ==
  /\ last.op = "deleteExpiredSessions"
  /\ last.matched >= 1
  /\ dbSessions[last.target.session] # {}

\* C9: getUserSessions(userId) returns, each once and in some order, exactly
\* the sessions of the session table it queries whose userId is the
\* argument, and changes no table.
C9_UserSessionsAreExactlyTheUsers ==
  [][\A call \in GetUserSessionsCalls :
       Step(call) =>
         LET t == last'.target.session
             mine == {r \in dbSessions[t] : r.userId = call.arg.userId}
         IN /\ last'.ok
            /\ Range(last'.result) = {AsSession(r) : r \in mine}
            /\ Len(last'.result) = Cardinality(mine)
            /\ dbSessions' = dbSessions]_vars

C9_Witness ==
  /\ last.op = "getUserSessions"
  /\ Len(last.result) = 1
  /\ Cardinality(dbSessions[last.target.session]) = 2

\* C10: deleteUserSessions(userId) removes from the session table it runs
\* against every session of that user and no session of another user (none
\* at all when the user has none), and a getUserSessions(userId) that follows
\* with the same schema argument returns the empty sequence.
C10_DeleteUserSessionsRemovesTheUsers ==
  [][\A call \in DeleteUserSessionsCalls :
       Step(call) =>
         LET t == last'.target.session
         IN /\ last'.ok
            /\ dbSessions'[t] = {r \in dbSessions[t] : r.userId # call.arg.userId}
            /\ OtherSchemasUnchanged(t)
            /\ LookupUserSessions(call.arg.userId, call.schema)' = <<>>]_vars

C10_Witness ==
  /\ last.op = "deleteUserSessions"
  /\ last.matched >= 1
  /\ dbSessions[last.target.session] # {}

\* No session table holds two rows with the same id.
NoTwoSessionsShareAnId ==
  \A s \in Schemas : \A r1, r2 \in dbSessions[s] : r1.id = r2.id => r1 = r2

\* Session S breaks a constraint of the session table of schema t: the table
\* holds a session with S.id, or the schema's user table no user S.userId.
BreaksConstraint(S, t) ==
  \/ \E r \in dbSessions[t] : r.id = S.id
  \/ \A u \in dbUsers[t] : u.id # S.userId

\* C11: setSession(S), S a session as the data model has it (no reserved key
\* among its attributes), fails and leaves the session tables as they were
\* when the session table it runs against already holds a session with S.id,
\* or the user table of that schema holds no user with S.userId; and no two
\* sessions of a table ever share an id.  (Stated per step: the step failed
\* and left the tables alone, or it is no setSession of such an S.)
C11_SetSessionFailsOnConstraintViolation ==
  [][/\ NoTwoSessionsShareAnId'
     /\ \/ ~last'.ok /\ dbSessions' = dbSessions
        \/ last'.op # "setSession"
        \/ \A call \in SetSessionCalls :
             (/\ last'.schema = call.schema
              /\ call.arg.session \in WellFormedSessions
              /\ BreaksConstraint(call.arg.session, last'.target.session))
               => ~Step(call)]_vars

\* A setSession was refused by a table that holds sessions.
C11_Witness ==
  /\ last.op = "setSession"
  /\ ~last.ok
  /\ dbSessions[last.target.session] # {}

\* The row a session is stored as, written out column by column.
AsRow(S) ==
  [id |-> S.id, userId |-> S.userId, expiresAt |-> S.expiresAt,
   country |-> S.attributes.country]

\* C12: of two setSession calls of one id in flight together that run against
\* the same session table, whichever completes first, at most one succeeds,
\* the other fails, and the table then holds exactly one row of that id; the
\* row is the session of the call that succeeded.
C12_ConcurrentSetSessionAtMostOneSucceeds ==
  [][\A c \in Callers :
       (/\ rival # NoRival
        /\ ~rival.done
        /\ rival.other = c
        /\ sessionTable.schema = rival.target
        /\ Settle(c))
         => LET rows == {r \in dbSessions'[rival.target] : r.id = rival.session.id}
            IN /\ ~(rival.ok /\ last'.ok)
               /\ Cardinality(rows) = 1
               /\ rival.ok => rows = {AsRow(rival.session)}
               /\ last'.ok => rows = {AsRow(pending[c].arg.session)}]_vars

\* Both calls of such a pair have completed: the first succeeded, the second
\* was refused by the same table.
C12_Witness ==
  /\ rival # NoRival
  /\ rival.done
  /\ rival.ok
  /\ last.op = "setSession"
  /\ ~last.ok
  /\ last.target.session = rival.target
  /\ \A c \in Callers : pending[c] = NoCall

\* C13: no adapter operation creates, modifies or deletes a user row: the
\* user tables are, after every sequence of calls, the ones the adapter was
\* constructed over.
C13_UserTablesAreNeverWritten == dbUsers = InitialUsers

\* A call has deleted all sessions of a table, which were of one user, while
\* the other table holds sessions.
C13_Witness ==
  /\ last.op = "deleteUserSessions"
  /\ last.matched >= 1
  /\ dbSessions[last.target.session] = {}
  /\ \E s \in Schemas : dbSessions[s] # {}

\* The rows of the session-to-user inner join for a session id, over the
\* session table of schema t and the user table of schema v.
JoinRows(sessionId, t, v) ==
  {p \in dbSessions[t] \X dbUsers[v] : p[1].id = sessionId /\ p[1].userId = p[2].id}

\* The rows a join could hold, over all tables of the store.
AnyJoinRow ==
  [session : UNION {dbSessions[s] : s \in Schemas},
   user : UNION {dbUsers[s] : s \in Schemas}]

\* C14: getSessionAndUser returns a present session and user exactly when
\* the inner join of the tables it queries yields one row for the session id;
\* on no row and on more than one row it returns (absent, absent); it never
\* fails.
C14_PresentIffJoinYieldsExactlyOneRow ==
  [][\A call \in GetSessionAndUserCalls :
       Step(call) =>
         LET join == JoinRows(call.arg.sessionId, last'.target.session,
                              last'.target.user)
         IN /\ last'.ok
            /\ (last'.result[1] # Null /\ last'.result[2] # Null)
                 <=> Cardinality(join) = 1
            /\ Cardinality(join) # 1 => last'.result = <<Null, Null>>
            /\ \A p, q \in AnyJoinRow :
                 getSessionAndUserResult(<<p, q>>) = <<Null, Null>>]_vars

\* A lookup whose join yielded exactly one row returned a session and a user.
C14_Witness ==
  /\ last.op = "getSessionAndUser"
  /\ last.matched = 1
  /\ last.result[1] # Null
  /\ last.result[2] # Null

\* The calls the claims of idempotence are about.
RepeatableCalls ==
  DeleteSessionCalls \cup DeleteUserSessionsCalls \cup UpdateSessionExpirationCalls

\* The same call once more, on the rows the first application left: with the
\* same schema argument it runs against the same session table.
Again(call, rows) ==
  CASE call.op = "deleteSession" -> execDeleteSession(rows, call.arg.sessionId)
    [] call.op = "deleteUserSessions" -> execDeleteUserSessions(rows, call.arg.userId)
    [] call.op = "updateSessionExpiration" ->
         execUpdateSessionExpiration(rows, call.arg.sessionId, call.arg.expiresAt)

\* C15: deleteSession, deleteUserSessions and updateSessionExpiration are
\* idempotent: from every state of the store, the call succeeds, and the same
\* call with the same arguments right after it succeeds again and leaves the
\* session table as the first application left it.
C15_DeleteAndUpdateAreIdempotent ==
  \A call \in RepeatableCalls :
    LET st == SelectSessionTable(call)
        once == Execute(call, st, SelectUserTable(call))
        twice == Again(call, once.rows)
    IN /\ once.ok
       /\ twice.ok
       /\ twice.rows = once.rows
       /\ (IF Truthy(call.schema) THEN dynamicSchema(st, call.schema) ELSE st) = st

\* An updateSessionExpiration has changed a row.
C15_Witness ==
  /\ last.op = "updateSessionExpiration"
  /\ last.matched = 1
  /\ \E r \in dbSessions[last.target.session] : r.expiresAt = MaxTime

\* The schema a call with the schema argument is to run against.
IntendedSchema(schema) == IF Truthy(schema) THEN schema ELSE defaultSchema

\* C16: in every getSessionAndUser call the session table and the user table
\* of the join are in the same schema, the one of the call's schema argument
\* or the default schema when it has none.
C16_JoinedTablesAreInTheSameSchema ==
  last.op = "getSessionAndUser" =>
    /\ last.target.session = last.target.user
    /\ last.target.session = IntendedSchema(last.schema)

\* The attributes of a returned session hold no reserved key.
NoReservedSessionKey(session) ==
  (DOMAIN session.attributes) \cap ReservedSessionKeys = {}

\* The attributes of a returned user hold no reserved key.
NoReservedUserKey(user) ==
  (DOMAIN user.attributes) \cap ReservedUserKeys = {}

\* C17: every session getSessionAndUser or getUserSessions returns has
\* attributes without the keys id, userId, expiresAt, and every user returned
\* has attributes without the key id; and the row a setSession(S) inserts has
\* S.id, S.userId and S.expiresAt in its id, userId and expiresAt columns,
\* whatever S.attributes holds.
C17_ReservedKeysAreExcludedBothWays ==
  [][/\ (last'.op = "getSessionAndUser" /\ last'.result[1] # Null) =>
          /\ NoReservedSessionKey(last'.result[1])
          /\ NoReservedUserKey(last'.result[2])
     /\ last'.op = "getUserSessions" =>
          \A i \in DOMAIN last'.result : NoReservedSessionKey(last'.result[i])
     /\ \A call \in SetSessionCalls :
          (Step(call) /\ last'.ok) =>
            LET S == call.arg.session
                t == last'.target.session
            IN \A r \in dbSessions'[t] \ dbSessions[t] :
                 /\ r.id = S.id
                 /\ r.userId = S.userId
                 /\ r.expiresAt = S.expiresAt]_vars

====
